---- MODULE Spec2Model ----
(***************************************************************************)
(* Request lifecycle of the Express/Firebase API server: the Auth Gate     *)
(* (firebaseAuthMiddleware), the catchAsync wrapper, the profile route     *)
(* handlers, the 404 catch-all and the global error handler.               *)
(*                                                                         *)
(* Calls to next() are tail calls in every stage of the source, so the     *)
(* pipeline is modelled in continuation style: a stage that calls next()   *)
(* hands control to the following stage through pc.                        *)
(*                                                                         *)
(* Strings are modelled as sequences of atoms; the 7-character literal     *)
(* "Bearer " is one atom, so startsWith and split act on atom sequences.   *)
(* Messages built by template literals are tuples of their pieces.         *)
(***************************************************************************)
EXTENDS Integers, Sequences, FiniteSets, TLC

\* ------------------------------------------------------------------ bounds

\* longest Authorization header, in atoms
MaxHdrLen == 3

\* ------------------------------------------------------- JavaScript values

\* typed stand-ins for the JavaScript value undefined
UndefStr == "<undefined>"
UndefNum == 0 - 1
UndefMsg == <<"<undefined>">>

\* a missing header / a missing body field
NoHeader == <<"<no header>">>

Reqs == {1, 2}

\* subject ids the verifier may decode
Uids == {"u1", "u2"}

\* ------------------------------------------------------------ Error Model

RECURSIVE LeadingDigit(_)
\* first character of `${n}` for a non-negative integer n
LeadingDigit(n) == IF n < 10 THEN n ELSE LeadingDigit(n \div 10)

\* mutant: every status code from 400 up counts as a client failure
StatusOf_FromFourHundred(statusCode) ==
    IF statusCode >= 400 THEN "fail" ELSE "error"

StatusOf(statusCode) ==
    IF statusCode >= 0 /\ LeadingDigit(statusCode) = 4 THEN "fail" ELSE "error"

\* new AppError(message, statusCode)
AppError(message, statusCode) ==
    [ isError       |-> TRUE,
      ctor          |-> "AppError",
      name          |-> "Error",
      nameOwn       |-> FALSE,
      statusCode    |-> statusCode,
      status        |-> StatusOf(statusCode),
      isOperational |-> TRUE,
      code          |-> UndefNum,
      path          |-> UndefStr,
      value         |-> UndefStr,
      errmsg        |-> UndefMsg,
      errors        |-> UndefMsg,
      message       |-> message,
      stack         |-> "stack@AppError" ]

\* new AppError(message, statusCode), or new AppError(message) when statusCode
\* is undefined: the parameter default applies to an undefined argument
newAppError(message, statusCode) ==
    AppError(message, IF statusCode = UndefNum THEN 500 ELSE statusCode)

\* an error value that is not an AppError: an Error instance of some other
\* class (isError) or a plain object that was thrown
Thrown(isError, ctor, name, nameOwn, message) ==
    [ isError       |-> isError,
      ctor          |-> ctor,
      name          |-> name,
      nameOwn       |-> nameOwn,
      statusCode    |-> UndefNum,
      status        |-> UndefStr,
      isOperational |-> FALSE,
      code          |-> UndefNum,
      path          |-> UndefStr,
      value         |-> UndefStr,
      errmsg        |-> UndefMsg,
      errors        |-> UndefMsg,
      message       |-> message,
      stack         |-> IF isError THEN "stack@throw" ELSE UndefStr ]

\* no error value
NoErr == [ctor |-> "<none>"]

\* ------------------------------------------------------------- requests

\* the pieces Authorization headers are built from
Atoms == {"Bearer ", "Basic ", "tok"}

RECURSIVE SeqsUpTo(_, _)
SeqsUpTo(S, n) ==
    IF n = 0 THEN {<<>>}
    ELSE LET shorter == SeqsUpTo(S, n - 1)
         IN  shorter \cup {Append(s, a) : s \in shorter, a \in S}

Headers == {NoHeader} \cup SeqsUpTo(Atoms, MaxHdrLen)

Methods == {"GET", "PUT"}

Urls ==
    {"/", "/profile/", "/profile/details", "/profile/update", "/profile/nope",
     "/does-not-exist"}

\* the path segments of a URL, as the router sees them
Segments(url) ==
    CASE url = "/"                -> <<>>
      [] url = "/profile/"        -> <<"profile">>
      [] url = "/profile/details" -> <<"profile", "details">>
      [] url = "/profile/update"  -> <<"profile", "update">>
      [] url = "/profile/nope"    -> <<"profile", "nope">>
      [] OTHER                    -> <<"does-not-exist">>

Names == {UndefStr, "", "Ann"}

Emails == {UndefStr, "", "ann@x.com"}

\* express.json() leaves req.body = {} when the request carries no body
EmptyBody == [name |-> UndefStr, email |-> UndefStr]

Bodies == [name : Names, email : Emails]

Requests ==
    { [method |-> m, url |-> u, authorization |-> h, body |-> b] :
        m \in Methods, u \in Urls, h \in Headers,
        b \in Bodies } \ 
    { rq \in [method : {"GET"}, url : Urls, authorization : Headers,
               body : Bodies] : rq.body # EmptyBody }

NoReq == [method |-> "<none>"]

\* the identity the verifier decodes
Identities == {[uid |-> u] : u \in Uids}

NullIdentity == [uid |-> UndefStr]

NoUser == [uid |-> "<no user>"]

\* what the verifier rejects with
VerifierErrors ==
    { [code |-> "auth/id-token-expired"], [code |-> "auth/argument-error"] }

NoOutcome == [pending |-> TRUE]

\* JavaScript truthiness of strings and numbers
FalsyStr(s) == s = UndefStr \/ s = ""

FalsyNum(n) == n = UndefNum \/ n = 0

\* authHeader.startsWith('Bearer ')
StartsWithBearer(h) == Len(h) >= 1 /\ h[1] = "Bearer "

RECURSIVE SplitBearer(_)
\* h.split('Bearer '): the pieces of h between occurrences of the separator
SplitBearer(h) ==
    IF \A i \in 1..Len(h) : h[i] # "Bearer " THEN <<h>>
    ELSE LET i == CHOOSE j \in 1..Len(h) :
                     /\ h[j] = "Bearer "
                     /\ \A k \in 1..(j - 1) : h[k] # "Bearer "
         IN  <<SubSeq(h, 1, i - 1)>> \o SplitBearer(SubSeq(h, i + 1, Len(h)))

\* authHeader.split('Bearer ')[1]
TokenOf(h) == SplitBearer(h)[2]

\* !authHeader || !authHeader.startsWith('Bearer ')
HeaderRejected(h) == h = NoHeader \/ h = <<>> \/ ~StartsWithBearer(h)

\* ------------------------------------------------- Global Error Responder

\* process.env.NODE_ENV
EnvValues == {"production", "development", UndefStr}

\* pieces of a duplicate-key error detail that are quoted values
QuotedPieces == {"'ann@x.com'"}

\* a step of the error responder either yields an error value or throws
Ok(e) == [threw |-> FALSE, val |-> e]

Throws == [threw |-> TRUE, val |-> NoErr]

\* mutant: the defaults are assigned unconditionally
Normalize_Always(e) ==
    [e EXCEPT !.statusCode = 500, !.status = "error"]

\* err.statusCode = err.statusCode || 500; err.status = err.status || 'error'
Normalize(e) ==
    [e EXCEPT !.statusCode = IF FalsyNum(@) THEN 500 ELSE @,
              !.status     = IF FalsyStr(@) THEN "error" ELSE @]

\* { ...err } followed by error.message = err.message: own enumerable
\* properties only, so an inherited name and the stack are not copied
SpreadCopy(e) ==
    [e EXCEPT !.isError = FALSE,
              !.ctor    = "Object",
              !.name    = IF e.nameOwn THEN @ ELSE UndefStr,
              !.stack   = IF e.isError THEN UndefStr ELSE @]

handleCastError(e) == AppError(<<"Invalid ", e.path, ": ", e.value>>, 400)

\* err.errmsg.match(<first quoted substring>)[0]: the first quoted piece
handleDuplicateFieldsError(e) ==
    IF e.errmsg = UndefMsg \/ \A i \in 1..Len(e.errmsg) : e.errmsg[i] \notin QuotedPieces
    THEN Throws
    ELSE LET i == CHOOSE j \in 1..Len(e.errmsg) :
                     /\ e.errmsg[j] \in QuotedPieces
                     /\ \A k \in 1..(j - 1) : e.errmsg[k] \notin QuotedPieces
         IN  Ok(AppError(<<"Duplicate field value: ", e.errmsg[i],
                           ". Please use another value!">>, 400))

RECURSIVE Join(_, _)
\* errors.join(sep)
Join(msgs, sep) ==
    IF Len(msgs) = 0 THEN <<>>
    ELSE IF Len(msgs) = 1 THEN <<msgs[1]>>
    ELSE <<msgs[1], sep>> \o Join(Tail(msgs), sep)

\* Object.values(err.errors) throws when err.errors is undefined
handleValidationError(e) ==
    IF e.errors = UndefMsg THEN Throws
    ELSE Ok(AppError(<<"Invalid input data. ">> \o Join(e.errors, ". "), 400))

handleJWTError == AppError(<<"Invalid token. Please log in again.">>, 401)

handleJWTExpiredError ==
    AppError(<<"Your token has expired! Please log in again.">>, 401)

\* the five reclassification tests of the production branch, in order
Reclassify(e) ==
    LET s1 == IF e.name = "CastError" THEN Ok(handleCastError(e)) ELSE Ok(e)
        s2 == IF s1.val.code = 11000 THEN handleDuplicateFieldsError(s1.val) ELSE s1
        s3 == IF s2.threw THEN s2
              ELSE IF s2.val.name = "ValidationError"
                   THEN handleValidationError(s2.val) ELSE s2
        s4 == IF s3.threw THEN s3
              ELSE IF s3.val.name = "JsonWebTokenError"
                   THEN Ok(handleJWTError) ELSE s3
        s5 == IF s4.threw THEN s4
              ELSE IF s4.val.name = "TokenExpiredError"
                   THEN Ok(handleJWTExpiredError) ELSE s4
    IN  s5

\* res.json(obj): JSON.stringify drops the keys whose value is undefined
IsUndefined(k, v) ==
    CASE k = "message"              -> v = UndefMsg
      [] k \in {"status", "stack"}  -> v = UndefStr
      [] OTHER                      -> FALSE

Json(obj) == [k \in {j \in DOMAIN obj : ~IsUndefined(j, obj[j])} |-> obj[k]]

Response(by, code, body) == [by |-> by, code |-> code, body |-> Json(body)]

\* an object nested in a JSON body: JSON.stringify writes its own enumerable
\* properties, so of an Error instance neither message nor stack (own, not
\* enumerable) nor an inherited name
OwnEnumerable(e) ==
    [e EXCEPT !.isError = FALSE,
              !.ctor    = "Object",
              !.name    = IF e.nameOwn THEN @ ELSE UndefStr,
              !.message = IF e.isError THEN UndefMsg ELSE @,
              !.stack   = IF e.isError THEN UndefStr ELSE @]

sendErrorDev(e) ==
    Response("globalErrorHandler", e.statusCode,
             [status |-> e.status, error |-> OwnEnumerable(e),
              message |-> e.message, stack |-> e.stack])

\* mutant: the non-operational branch sends the error's own message
sendErrorProd_Leaks(e) ==
    IF e.isOperational
    THEN Response("globalErrorHandler", e.statusCode,
                  [status |-> e.status, message |-> e.message])
    ELSE Response("globalErrorHandler", 500,
                  [status |-> "error", message |-> e.message])

sendErrorProd(e) ==
    IF e.isOperational
    THEN Response("globalErrorHandler", e.statusCode,
                  [status |-> e.status, message |-> e.message])
    ELSE Response("globalErrorHandler", 500,
                  [status |-> "error", message |-> <<"Something went wrong">>])

\* mutant: everything but 'development' counts as production
IsProduction_NotDevelopment(nodeEnv) == nodeEnv # "development"

\* process.env.NODE_ENV === 'production'
IsProduction(nodeEnv) == nodeEnv = "production"

\* globalErrorHandler(err, req, res, next) under NODE_ENV = nodeEnv: the
\* response it writes, unless a reclassification step throws
globalErrorHandler(e, nodeEnv) ==
    LET err == Normalize(e)
    IN  IF IsProduction(nodeEnv)
        THEN LET error == Reclassify(SpreadCopy(err))
             IN  IF error.threw THEN [threw |-> TRUE, response |-> NoErr]
                 ELSE [threw |-> FALSE, response |-> sendErrorProd(error.val)]
        ELSE [threw |-> FALSE, response |-> sendErrorDev(err)]

\* ---------------------------------------------------------------- Auth Gate

Unauthorized(message) ==
    Response("firebaseAuthMiddleware", 401,
             [error |-> "Unauthorized", message |-> message])

\* mutant: the early 401 without its return, so the verifier is still called
GateOnHeader_NoReturn(h) ==
    IF HeaderRejected(h)
    THEN [respond |-> <<Unauthorized(<<"Missing or invalid authorization token">>)>>,
          verify  |-> <<<<>>>>]
    ELSE [respond |-> <<>>, verify |-> <<TokenOf(h)>>]

\* the synchronous part of firebaseAuthMiddleware, up to the await: the 401
\* it writes, or the credential it calls the verifier with
GateOnHeader(h) ==
    IF HeaderRejected(h)
    THEN [respond |-> <<Unauthorized(<<"Missing or invalid authorization token">>)>>,
          verify  |-> <<>>]
    ELSE [respond |-> <<>>, verify |-> <<TokenOf(h)>>]

\* mutant: next() is called without attaching the decoded token
GateOnResolve_NoAttach(decodedToken) ==
    IF decodedToken = NullIdentity
    THEN [respond |-> <<Unauthorized(<<"Invalid authorization token">>)>>,
          user    |-> NoUser,
          next    |-> FALSE]
    ELSE [respond |-> <<>>, user |-> NoUser, next |-> TRUE]

\* mutant: the 401 for a missing identity without its return
GateOnResolve_NoReturn(decodedToken) ==
    IF decodedToken = NullIdentity
    THEN [respond |-> <<Unauthorized(<<"Invalid authorization token">>)>>,
          user    |-> decodedToken,
          next    |-> TRUE]
    ELSE [respond |-> <<>>, user |-> decodedToken, next |-> TRUE]

\* the continuation of firebaseAuthMiddleware once verifyIdToken resolved
GateOnResolve(decodedToken) ==
    IF decodedToken = NullIdentity
    THEN [respond |-> <<Unauthorized(<<"Invalid authorization token">>)>>,
          user    |-> NoUser,
          next    |-> FALSE]
    ELSE [respond |-> <<>>, user |-> decodedToken, next |-> TRUE]

\* mutant: the catch block echoes the verifier's error to the client
GateOnReject_Leaks(error) ==
    [respond |-> <<Unauthorized(<<"Invalid authorization token: ", error.code>>)>>,
     user    |-> NoUser,
     next    |-> FALSE]

\* mutant: the catch block writes its 401 and still calls next()
GateOnReject_NextToo(error) ==
    [respond |-> <<Unauthorized(<<"Invalid authorization token">>)>>,
     user    |-> NoUser,
     next    |-> TRUE]

\* the catch block of firebaseAuthMiddleware
GateOnReject(error) ==
    [respond |-> <<Unauthorized(<<"Invalid authorization token">>)>>,
     user    |-> NoUser,
     next    |-> FALSE]

\* ----------------------------------------------------------- route handlers

\* what a handler body did: the responses it wrote, the errors it passed to
\* next, and how its call ended (resolved, rejected, or threw synchronously)
Did(responses, nexts) ==
    [responses |-> responses, nexts |-> nexts, result |-> "resolved",
     thrown |-> NoErr]

Failed(result, e) ==
    [responses |-> <<>>, nexts |-> <<>>, result |-> result, thrown |-> e]

\* mutant: the handler neither responds nor calls next
profileRoot_Silent(rq, usr) == Did(<<>>, <<>>)

\* Router.get("/")
profileRoot(rq, usr) ==
    IF usr = NoUser
    THEN Did(<<>>, <<AppError(<<"User not found">>, 404)>>)
    ELSE Did(<<Response("handler", 200,
                 [message |-> <<"Profile route is protected and accessible only to authenticated users.">>,
                  user    |-> usr])>>, <<>>)

getUserProfile(rq, usr) ==
    IF usr = NoUser
    THEN Did(<<>>, <<AppError(<<"User not authenticated">>, 401)>>)
    ELSE Did(<<Response("handler", 200,
                 [status |-> "success", data |-> [user |-> usr]])>>, <<>>)

\* mutant: next(new AppError(...)) without its return
updateUserProfile_NoReturn(rq, usr) ==
    LET name  == rq.body.name
        email == rq.body.email
        ok    == Response("handler", 200,
                     [status |-> "success",
                      data   |-> [user |-> [uid |-> usr.uid, name |-> name,
                                            email |-> email]]])
    IN  IF FalsyStr(name) \/ FalsyStr(email)
        THEN Did(<<ok>>, <<AppError(<<"Please provide name and email">>, 400)>>)
        ELSE Did(<<ok>>, <<>>)

\* mutant: only name is validated
updateUserProfile_NameOnly(rq, usr) ==
    LET name  == rq.body.name
        email == rq.body.email
    IN  IF FalsyStr(name)
        THEN Did(<<>>, <<AppError(<<"Please provide name and email">>, 400)>>)
        ELSE Did(<<Response("handler", 200,
                     [status |-> "success",
                      data   |-> [user |-> [uid |-> usr.uid, name |-> name,
                                            email |-> email]]])>>, <<>>)

updateUserProfile(rq, usr) ==
    LET name  == rq.body.name
        email == rq.body.email
    IN  IF FalsyStr(name) \/ FalsyStr(email)
        THEN Did(<<>>, <<AppError(<<"Please provide name and email">>, 400)>>)
        ELSE Did(<<Response("handler", 200,
                     [status |-> "success",
                      data   |-> [user |-> [uid |-> IF usr = NoUser THEN UndefStr
                                                    ELSE usr.uid,
                                            name |-> name,
                                            email |-> email]]])>>, <<>>)

\* a handler given to catchAsync: an async function or a plain one, that
\* responds, passes an error to next, or throws
wrappedHandler(h) ==
    CASE h.act = "respond" ->
           Did(<<Response("handler", 200, [status |-> "success"])>>, <<>>)
      [] h.act = "next"    -> Did(<<>>, <<h.err>>)
      [] OTHER             ->
           Failed(IF h.async THEN "rejected" ELSE "threw", h.err)

\* a handler given to catchAsync that ends in next(new AppError(...)) with
\* the status code of its choice, or with none
raisingHandler(h) == Did(<<>>, <<newAppError(<<"raised">>, h.statusCode)>>)

\* Promise.resolve(fn(req, res, next)).catch(next): a rejection is passed
\* to next; an exception thrown by the call fn(...) itself is raised before
\* Promise.resolve is entered and leaves the wrapper
catchAsync(did) ==
    [responses |-> did.responses,
     nexts     |-> did.nexts,
     caught    |-> IF did.result = "rejected" THEN <<did.thrown>> ELSE <<>>,
     escaped   |-> IF did.result = "threw" THEN <<did.thrown>> ELSE <<>>]

\* an error on its way to the error-handling middleware, and who passed it
Fwd(from, errs) == [i \in 1..Len(errs) |-> [from |-> from, err |-> errs[i]]]

\* ------------------------------------------------------------------- state

VARIABLES
    env,         \* process.env.NODE_ENV
    pc,          \* pc[r]: the stage request r is at
    req,         \* req[r]: method, url, headers.authorization, body
    user,        \* user[r]: req.user
    verifyArgs,  \* verifyArgs[r]: the credentials verifyIdToken was called with
    verifyOut,   \* verifyOut[r]: how the verifier settled, once it has
    handler,     \* handler[r]: the route handler the router selected
    fwd,         \* fwd[r]: the errors passed to next(err), in order
    escaped,     \* escaped[r]: exceptions that left the catchAsync wrapper
    gerArgs,     \* gerArgs[r]: the errors globalErrorHandler was called with,
                 \*   each with the NODE_ENV it read
    res,         \* res[r]: the responses written for r, in order
    trace        \* trace[r]: the stages that ran for r, in order

vars ==
    <<env, pc, req, user, verifyArgs, verifyOut, handler, fwd, escaped,
      gerArgs, res, trace>>

NoHandler == [name |-> "<none>"]

Idle ==
    /\ pc = [r \in Reqs |-> "idle"]
    /\ req = [r \in Reqs |-> NoReq]
    /\ user = [r \in Reqs |-> NoUser]
    /\ verifyArgs = [r \in Reqs |-> <<>>]
    /\ verifyOut = [r \in Reqs |-> NoOutcome]
    /\ handler = [r \in Reqs |-> NoHandler]
    /\ fwd = [r \in Reqs |-> <<>>]
    /\ escaped = [r \in Reqs |-> <<>>]
    /\ gerArgs = [r \in Reqs |-> <<>>]
    /\ res = [r \in Reqs |-> <<>>]
    /\ trace = [r \in Reqs |-> <<>>]

\* the server is listening and no request has arrived
Init == env \in EnvValues /\ Idle

\* where a stage that has passed errs on and written out leaves the request
After(r, pending, written) ==
    IF pending > Len(gerArgs[r]) THEN "error"
    ELSE IF written > 0 THEN "done" ELSE "hung"

\* ----------------------------------------------------------------- actions

\* the deployment-mode flag is ambient process state and may change
SetEnv(v) ==
    /\ v # env
    /\ env' = v
    /\ UNCHANGED <<pc, req, user, verifyArgs, verifyOut, handler, fwd, escaped,
                   gerArgs, res, trace>>

\* a request arrives; express.json() has parsed its body
Receive(r, rq) ==
    /\ pc[r] = "idle"
    /\ req' = [req EXCEPT ![r] = rq]
    /\ pc' = [pc EXCEPT ![r] = "app"]
    /\ trace' = [trace EXCEPT ![r] = Append(@, "receive")]
    /\ UNCHANGED <<env, user, verifyArgs, verifyOut, handler, fwd, escaped,
                   gerArgs, res>>

\* app.get("/"): res.send("Hello World!")
Hello(r) ==
    /\ pc[r] = "app"
    /\ req[r].method = "GET" /\ Segments(req[r].url) = <<>>
    /\ res' = [res EXCEPT ![r] = Append(@, Response("hello", 200,
                                          [text |-> "Hello World!"]))]
    /\ pc' = [pc EXCEPT ![r] = "done"]
    /\ trace' = [trace EXCEPT ![r] = Append(@, "hello")]
    /\ UNCHANGED <<env, req, user, verifyArgs, verifyOut, handler, fwd,
                   escaped, gerArgs>>

\* app.use("/profile", profileRoutes): every method, every path below the
\* mount point enters the router, whose first layer is the Auth Gate
MountProfile(r) ==
    /\ pc[r] = "app"
    /\ Len(Segments(req[r].url)) >= 1 /\ Segments(req[r].url)[1] = "profile"
    /\ pc' = [pc EXCEPT ![r] = "auth"]
    /\ UNCHANGED <<env, req, user, verifyArgs, verifyOut, handler, fwd,
                   escaped, gerArgs, res, trace>>

\* no app-level route matched: the request falls through to app.all("*")
Unrouted(r) ==
    /\ pc[r] = "app"
    /\ ~(req[r].method = "GET" /\ Segments(req[r].url) = <<>>)
    /\ ~(Len(Segments(req[r].url)) >= 1 /\ Segments(req[r].url)[1] = "profile")
    /\ pc' = [pc EXCEPT ![r] = "notfound"]
    /\ UNCHANGED <<env, req, user, verifyArgs, verifyOut, handler, fwd,
                   escaped, gerArgs, res, trace>>

\* firebaseAuthMiddleware up to its await
AuthGate(r) ==
    /\ pc[r] = "auth"
    /\ LET g == GateOnHeader(req[r].authorization)
       IN  /\ res' = [res EXCEPT ![r] = @ \o g.respond]
           /\ verifyArgs' = [verifyArgs EXCEPT ![r] = @ \o g.verify]
           /\ pc' = [pc EXCEPT ![r] =
                       IF g.verify # <<>> THEN "verifying" ELSE "done"]
           /\ trace' = [trace EXCEPT ![r] = @ \o <<"auth">>
                          \o [i \in 1..Len(g.verify) |-> "verify"]
                          \o [i \in 1..Len(g.respond) |-> "auth401"]]
    /\ UNCHANGED <<env, req, user, verifyOut, handler, fwd, escaped, gerArgs>>

\* mutant: the decoded token is kept in one slot shared by all requests
GateSettles_Shared(r, outcome, g) ==
    /\ pc[r] = "verifying"
    /\ verifyOut' = [verifyOut EXCEPT ![r] = outcome]
    /\ user' = [q \in Reqs |-> g.user]
    /\ res' = [res EXCEPT ![r] = @ \o g.respond]
    /\ pc' = [pc EXCEPT ![r] = IF g.next THEN "router" ELSE "done"]
    /\ trace' = [trace EXCEPT ![r] = @
                   \o [i \in 1..Len(g.respond) |-> "auth401"]
                   \o (IF g.next THEN <<"next">> ELSE <<>>)]
    /\ UNCHANGED <<env, req, verifyArgs, handler, fwd, escaped, gerArgs>>

\* what firebaseAuthMiddleware does once the verifier has settled
GateSettles(r, outcome, g) ==
    /\ pc[r] = "verifying"
    /\ verifyOut' = [verifyOut EXCEPT ![r] = outcome]
    /\ user' = [user EXCEPT ![r] = g.user]
    /\ res' = [res EXCEPT ![r] = @ \o g.respond]
    /\ pc' = [pc EXCEPT ![r] = IF g.next THEN "router" ELSE "done"]
    /\ trace' = [trace EXCEPT ![r] = @
                   \o [i \in 1..Len(g.respond) |-> "auth401"]
                   \o (IF g.next THEN <<"next">> ELSE <<>>)]
    /\ UNCHANGED <<env, req, verifyArgs, handler, fwd, escaped, gerArgs>>

\* verifyIdToken resolves with decodedToken
VerifyResolve(r, decodedToken) ==
    GateSettles(r, [resolved |-> decodedToken], GateOnResolve(decodedToken))

\* verifyIdToken rejects with error
VerifyReject(r, error) ==
    GateSettles(r, [rejected |-> error], GateOnReject(error))

\* the router's routes, tried after the Auth Gate called next()
RouteOf(method, url) ==
    LET path == Tail(Segments(url))
    IN  CASE method = "GET" /\ path = <<>>          -> "profileRoot"
          [] method = "GET" /\ path = <<"details">> -> "getUserProfile"
          [] method = "PUT" /\ path = <<"update">>  -> "updateUserProfile"
          [] OTHER                                  -> "<none>"

\* Router.get("/", ...), Router.get("/details", ...), Router.put("/update", ...)
RouterDispatch(r) ==
    /\ pc[r] = "router"
    /\ RouteOf(req[r].method, req[r].url) # "<none>"
    /\ handler' = [handler EXCEPT ![r] =
                     [name |-> RouteOf(req[r].method, req[r].url)]]
    /\ pc' = [pc EXCEPT ![r] = "handler"]
    /\ UNCHANGED <<env, req, user, verifyArgs, verifyOut, fwd, escaped,
                   gerArgs, res, trace>>

\* no route of the router matched: the request leaves it for app.all("*")
RouterFallsThrough(r) ==
    /\ pc[r] = "router"
    /\ RouteOf(req[r].method, req[r].url) = "<none>"
    /\ pc' = [pc EXCEPT ![r] = "notfound"]
    /\ UNCHANGED <<env, req, user, verifyArgs, verifyOut, handler, fwd,
                   escaped, gerArgs, res, trace>>

\* a handler wrapped by catchAsync runs; an exception that leaves the
\* wrapper is caught by the router layer, which passes it to next
RunWrapped(r, did) ==
    LET w       == catchAsync(did)
        passed  == Fwd("handler", w.nexts) \o Fwd("catchAsync", w.caught)
                     \o Fwd("express", w.escaped)
    IN  /\ pc[r] = "handler"
        /\ res' = [res EXCEPT ![r] = @ \o w.responses]
        /\ fwd' = [fwd EXCEPT ![r] = @ \o passed]
        /\ escaped' = [escaped EXCEPT ![r] = @ \o w.escaped]
        /\ pc' = [pc EXCEPT ![r] =
                    After(r, Len(fwd[r]) + Len(passed), Len(w.responses))]
        /\ trace' = [trace EXCEPT ![r] = Append(@, handler[r].name)]
        /\ UNCHANGED <<env, req, user, verifyArgs, verifyOut, handler, gerArgs>>

ProfileRoot(r) ==
    /\ handler[r].name = "profileRoot"
    /\ RunWrapped(r, profileRoot(req[r], user[r]))

GetUserProfile(r) ==
    /\ handler[r].name = "getUserProfile"
    /\ RunWrapped(r, getUserProfile(req[r], user[r]))

UpdateUserProfile(r) ==
    /\ handler[r].name = "updateUserProfile"
    /\ RunWrapped(r, updateUserProfile(req[r], user[r]))

\* catchAsync applied to an arbitrary handler
Wrapped(r) ==
    /\ handler[r].name = "wrapped"
    /\ RunWrapped(r, wrappedHandler(handler[r]))

\* catchAsync applied to a handler that raises an AppError
Raising(r) ==
    /\ handler[r].name = "raising"
    /\ RunWrapped(r, raisingHandler(handler[r]))

\* mutant: the status code argument is left out, so AppError defaults to 500
notFound_DefaultCode(rq) ==
    AppError(<<"Can't find ", rq.url, " on this server!">>, 500)

\* app.all("*"): next(new AppError(`Can't find ${req.originalUrl} ...`, 404))
notFound(rq) == AppError(<<"Can't find ", rq.url, " on this server!">>, 404)

NotFound(r) ==
    /\ pc[r] = "notfound"
    /\ fwd' = [fwd EXCEPT ![r] = @ \o Fwd("notFound", <<notFound(req[r])>>)]
    /\ pc' = [pc EXCEPT ![r] = "error"]
    /\ trace' = [trace EXCEPT ![r] = Append(@, "notFound")]
    /\ UNCHANGED <<env, req, user, verifyArgs, verifyOut, handler, escaped,
                   gerArgs, res>>

\* app.use(globalErrorHandler): called with the next error passed to next;
\* if it throws, the framework's final handler takes over
GlobalErrorHandler(r) ==
    /\ pc[r] = "error"
    /\ LET e   == fwd[r][Len(gerArgs[r]) + 1].err
           out == globalErrorHandler(e, env)
       IN  /\ gerArgs' = [gerArgs EXCEPT ![r] =
                            Append(@, [err |-> e, nodeEnv |-> env])]
           /\ res' = [res EXCEPT ![r] =
                        IF out.threw THEN @ ELSE Append(@, out.response)]
           /\ pc' = [pc EXCEPT ![r] =
                       IF out.threw THEN "final"
                       ELSE IF Len(fwd[r]) > Len(gerArgs[r]) + 1 THEN "error"
                       ELSE "done"]
    /\ trace' = [trace EXCEPT ![r] = Append(@, "globalErrorHandler")]
    /\ UNCHANGED <<env, req, user, verifyArgs, verifyOut, handler, fwd,
                   escaped>>

\* the framework's last resort when the error handler itself threw: a bare
\* 500 that is not produced by this program's responders
FinalHandler(r) ==
    /\ pc[r] = "final"
    /\ res' = [res EXCEPT ![r] = Append(@, Response("finalhandler", 500,
                                          [html |-> "Internal Server Error"]))]
    /\ pc' = [pc EXCEPT ![r] =
                IF Len(fwd[r]) > Len(gerArgs[r]) THEN "error" ELSE "done"]
    /\ trace' = [trace EXCEPT ![r] = Append(@, "finalhandler")]
    /\ UNCHANGED <<env, req, user, verifyArgs, verifyOut, handler, fwd,
                   escaped, gerArgs>>

\* ---------------------------------------------------------- specifications

\* the request the single-request specification serves
First == CHOOSE r \in Reqs : \A q \in Reqs : r <= q

Pipeline(r) ==
    \/ Hello(r)
    \/ MountProfile(r)
    \/ Unrouted(r)
    \/ AuthGate(r)
    \/ \E d \in Identities \cup {NullIdentity} : VerifyResolve(r, d)
    \/ \E e \in VerifierErrors : VerifyReject(r, e)
    \/ RouterDispatch(r)
    \/ RouterFallsThrough(r)
    \/ ProfileRoot(r)
    \/ GetUserProfile(r)
    \/ UpdateUserProfile(r)
    \/ NotFound(r)
    \/ GlobalErrorHandler(r)

Next ==
    \/ \E v \in EnvValues : SetEnv(v)
    \/ \E rq \in Requests : Receive(First, rq)
    \/ Pipeline(First)

\* the assembled application serving one request
Spec == Init /\ [][Next]_vars

\* error values a handler may fail with: Application Errors, other Error
\* instances, provider-shaped errors (with the name as an own property, as a
\* constructor assigns it, or inherited from the prototype), plain objects
ProviderNames ==
    {"CastError", "ValidationError", "JsonWebTokenError", "TokenExpiredError"}

ErrorValues ==
    { AppError(<<"Please provide name and email">>, 400),
      AppError(<<"User not authenticated">>, 401),
      AppError(<<"User not found">>, 404),
      AppError(<<"Upstream failed">>, 502),
      Thrown(TRUE, "Error", "Error", FALSE, <<"boom">>),
      Thrown(TRUE, "TypeError", "TypeError", FALSE, <<"x is not a function">>),
      [Thrown(TRUE, "HttpError", "BadRequestError", TRUE, <<"bad request">>)
         EXCEPT !.statusCode = 400, !.status = "400"],
      [Thrown(TRUE, "Error", "Error", FALSE, <<"zero">>)
         EXCEPT !.statusCode = 0, !.status = ""],
      Thrown(FALSE, "Object", UndefStr, FALSE, UndefMsg),
      [Thrown(FALSE, "Object", UndefStr, FALSE, <<"teapot">>)
         EXCEPT !.statusCode = 418, !.status = "fail", !.isOperational = TRUE] }
    \cup
    { [Thrown(TRUE, n, n, own, <<"provider says no">>)
         EXCEPT !.path = "email", !.value = "42",
                !.errors = IF n = "ValidationError" THEN ers ELSE UndefMsg] :
        n \in ProviderNames, own \in BOOLEAN,
        ers \in {UndefMsg, <<>>, <<"name is required", "email is invalid">>} }
    \cup
    { [Thrown(isErr, "MongoError", "MongoError", FALSE, <<"E11000 duplicate key">>)
         EXCEPT !.code = 11000, !.errmsg = m] :
        isErr \in BOOLEAN,
        m \in {UndefMsg, <<"E11000 dup key: { email: ", "'ann@x.com'", " }">>,
               <<"E11000 dup key: email">>} }

WrappedHandlers ==
    [name : {"wrapped"}, async : BOOLEAN, act : {"respond", "next", "throw"},
     err : ErrorValues]

\* a request has reached a route whose handler is catchAsync(fn), for an
\* arbitrary fn
InitCapture ==
    /\ env \in EnvValues
    /\ \E h \in WrappedHandlers :
          /\ pc = [r \in Reqs |-> IF r = First THEN "handler" ELSE "idle"]
          /\ handler = [r \in Reqs |-> IF r = First THEN h ELSE NoHandler]
    /\ req = [r \in Reqs |-> NoReq]
    /\ user = [r \in Reqs |-> NoUser]
    /\ verifyArgs = [r \in Reqs |-> <<>>]
    /\ verifyOut = [r \in Reqs |-> NoOutcome]
    /\ fwd = [r \in Reqs |-> <<>>]
    /\ escaped = [r \in Reqs |-> <<>>]
    /\ gerArgs = [r \in Reqs |-> <<>>]
    /\ res = [r \in Reqs |-> <<>>]
    /\ trace = [r \in Reqs |-> <<>>]

NextCapture ==
    \/ \E v \in EnvValues : SetEnv(v)
    \/ Wrapped(First)
    \/ GlobalErrorHandler(First)
    \/ FinalHandler(First)

\* catchAsync and the global error handler on arbitrary handlers and errors
SpecCapture == InitCapture /\ [][NextCapture]_vars

\* both of the above: every way an error can reach the error handler
SpecAll == (Init \/ InitCapture) /\ [][Next \/ NextCapture]_vars

\* the requests of the concurrent specification: no header, or a bearer
\* header whose credential is one or more "tok" atoms
ConcHeaders ==
    { h \in Headers :
        \/ h = NoHeader
        \/ /\ Len(h) >= 2 /\ h[1] = "Bearer "
           /\ \A i \in 2..Len(h) : h[i] = "tok" }

ConcRequests ==
    { rq \in Requests :
        /\ rq.authorization \in ConcHeaders
        /\ rq.method = "PUT" <=> rq.url = "/profile/update"
        /\ rq.body \in {EmptyBody, [name |-> "Ann", email |-> "ann@x.com"]} }

NextConc ==
    \/ \E v \in EnvValues : SetEnv(v)
    \/ \E r \in Reqs :
          \/ \E rq \in ConcRequests : Receive(r, rq)
          \/ Pipeline(r)

\* the application serving all requests of Reqs at once, their stages
\* interleaved in any order
SpecConc == Init /\ [][NextConc]_vars

\* the status codes an AppError is constructed with
StatusCodes == 100..599

RaisingHandlers ==
    [name : {"raising"}, statusCode : StatusCodes \cup {UndefNum}]

\* a request has reached a route whose handler raises an AppError
InitRaise ==
    /\ env \in EnvValues
    /\ \E h \in RaisingHandlers :
          /\ pc = [r \in Reqs |-> IF r = First THEN "handler" ELSE "idle"]
          /\ handler = [r \in Reqs |-> IF r = First THEN h ELSE NoHandler]
    /\ req = [r \in Reqs |-> NoReq]
    /\ user = [r \in Reqs |-> NoUser]
    /\ verifyArgs = [r \in Reqs |-> <<>>]
    /\ verifyOut = [r \in Reqs |-> NoOutcome]
    /\ fwd = [r \in Reqs |-> <<>>]
    /\ escaped = [r \in Reqs |-> <<>>]
    /\ gerArgs = [r \in Reqs |-> <<>>]
    /\ res = [r \in Reqs |-> <<>>]
    /\ trace = [r \in Reqs |-> <<>>]

NextRaise ==
    \/ \E v \in EnvValues : SetEnv(v)
    \/ Raising(First)
    \/ GlobalErrorHandler(First)

\* AppErrors of every status code, raised by a handler and answered by the
\* global error handler
SpecRaise == InitRaise /\ [][NextRaise]_vars

\* the steps the event loop runs for request r once they are ready: every
\* stage of the pipeline; the settling of the external verifier is not
\* among them
EventLoop(r) ==
    \/ Hello(r)
    \/ MountProfile(r)
    \/ Unrouted(r)
    \/ AuthGate(r)
    \/ RouterDispatch(r)
    \/ RouterFallsThrough(r)
    \/ ProfileRoot(r)
    \/ GetUserProfile(r)
    \/ UpdateUserProfile(r)
    \/ NotFound(r)
    \/ GlobalErrorHandler(r)

\* a callback that is ready is eventually run
Fairness == \A r \in Reqs : WF_vars(EventLoop(r))

\* the assembled application under a fair event loop; nothing obliges the
\* verifier to settle
SpecFair == Init /\ [][Next]_vars /\ Fairness

\* ------------------------------------------------------------------ claims

\* the request was made to a path below the /profile mount point
Protected(r) == req[r] # NoReq /\ req[r].url \notin {"/", "/does-not-exist"}

\* the header is absent or does not begin with the scheme token
NotBearer(h) == h = NoHeader \/ Len(h) = 0 \/ h[1] # "Bearer "

Count(seq, x) == Cardinality({i \in 1..Len(seq) : seq[i] = x})

HandlerNames == {"profileRoot", "getUserProfile", "updateUserProfile"}

HandlerRan(r) == \E i \in 1..Len(trace[r]) : trace[r][i] \in HandlerNames

MissingTokenResponse ==
    [by |-> "firebaseAuthMiddleware", code |-> 401,
     body |-> [error |-> "Unauthorized",
               message |-> <<"Missing or invalid authorization token">>]]

InvalidTokenResponse ==
    [by |-> "firebaseAuthMiddleware", code |-> 401,
     body |-> [error |-> "Unauthorized",
               message |-> <<"Invalid authorization token">>]]

\* C1: a request to a protected path whose Authorization header is absent or
\* does not start with "Bearer " is answered 401 {error: "Unauthorized",
\* message: "Missing or invalid authorization token"} by the Auth Gate; the
\* verifier is never called, no identity is attached and next is never invoked.
C1_MissingHeaderRejected ==
    \A r \in Reqs :
        (Protected(r) /\ NotBearer(req[r].authorization)) =>
            /\ verifyArgs[r] = <<>>
            /\ verifyOut[r] = NoOutcome
            /\ user[r] = NoUser
            /\ Count(trace[r], "next") = 0
            /\ ~HandlerRan(r)
            /\ fwd[r] = <<>>
            /\ pc[r] \in {"app", "auth", "done"}
            /\ pc[r] = "done" => res[r] = <<MissingTokenResponse>>
            /\ pc[r] # "done" => res[r] = <<>>

C1_Witness ==
    \E r \in Reqs :
        /\ Protected(r) /\ NotBearer(req[r].authorization)
        /\ req[r].authorization # NoHeader
        /\ pc[r] = "done" /\ Len(res[r]) = 1

\* C2: a protected request with a "Bearer " header whose credential the
\* verifier rejects, or for which it resolves with no identity, is answered
\* 401 {error: "Unauthorized", message: "Invalid authorization token"}: no
\* handler runs, no identity is attached, the verifier was called exactly
\* once, and the body carries nothing of the verifier's error.
VerifierRefused(r) ==
    \/ \E e \in VerifierErrors : verifyOut[r] = [rejected |-> e]
    \/ verifyOut[r] = [resolved |-> NullIdentity]

C2_RefusedCredentialRejected ==
    \A r \in Reqs :
        /\ VerifierRefused(r) =>
              /\ Protected(r) /\ ~NotBearer(req[r].authorization)
              /\ pc[r] = "done"
              /\ res[r] = <<InvalidTokenResponse>>
              /\ user[r] = NoUser
              /\ Len(verifyArgs[r]) = 1
              /\ Count(trace[r], "next") = 0
              /\ ~HandlerRan(r)
              /\ fwd[r] = <<>>
        /\ pc[r] = "verifying" => Len(verifyArgs[r]) = 1 /\ res[r] = <<>>

C2_Witness ==
    \E r \in Reqs, e \in VerifierErrors :
        verifyOut[r] = [rejected |-> e] /\ pc[r] = "done"

\* C3: when the verifier accepts the credential with an identity, the Auth
\* Gate attaches exactly that identity to the request, writes no response of
\* its own, calls next exactly once, and the route handler that then runs
\* sees that identity.
Accepted(r) == \E d \in Identities : verifyOut[r] = [resolved |-> d]

C3_AcceptedIdentityAttached ==
    \A r \in Reqs :
        Accepted(r) =>
            LET d == verifyOut[r].resolved
            IN  /\ user[r] = d
                /\ user[r].uid = d.uid
                /\ \A i \in 1..Len(res[r]) :
                       res[r][i].by # "firebaseAuthMiddleware"
                /\ Count(trace[r], "next") = 1
                /\ (HandlerRan(r) /\ handler[r].name = "profileRoot") =>
                       /\ Len(res[r]) = 1 /\ fwd[r] = <<>>
                       /\ res[r][1].body.user = d
                /\ (HandlerRan(r) /\ handler[r].name = "getUserProfile") =>
                       /\ Len(res[r]) = 1 /\ fwd[r] = <<>>
                       /\ res[r][1].body.data.user = d
                /\ (HandlerRan(r) /\ handler[r].name = "updateUserProfile"
                       /\ fwd[r] = <<>>) =>
                       /\ Len(res[r]) = 1
                       /\ res[r][1].body.data.user.uid = d.uid

C3_Witness ==
    \E r \in Reqs :
        /\ Accepted(r) /\ HandlerRan(r) /\ pc[r] = "done"
        /\ handler[r].name = "getUserProfile"
        /\ res[r][1].body.data.user = verifyOut[r].resolved

\* C4: every run of one of the three protected route handlers has exactly
\* one terminal outcome: the handler's own response, or one error passed to
\* the error handler through next(err); never both and never neither.
OwnResponses(r) == SelectSeq(res[r], LAMBDA x : x.by = "handler")

C4_OneTerminalOutcome ==
    \A r \in Reqs :
        (HandlerRan(r) /\ handler[r].name \in HandlerNames) =>
            /\ Len(OwnResponses(r)) + Len(fwd[r]) = 1
            /\ pc[r] # "hung"

C4_Witness ==
    \E r \in Reqs :
        /\ HandlerRan(r) /\ handler[r].name = "updateUserProfile"
        /\ Len(fwd[r]) = 1 /\ OwnResponses(r) = <<>> /\ pc[r] = "done"

\* C5: whatever a handler wrapped by catchAsync fails with, and whether it
\* throws synchronously or rejects, the wrapper itself intercepts the failure
\* and passes it to next: the error handler is called exactly once with the
\* original error and nothing propagates out of the wrapper.
C5_WrapperInterceptsEveryFailure ==
    \A r \in Reqs :
        (handler[r].name = "wrapped" /\ handler[r].act = "throw"
           /\ pc[r] # "handler") =>
            /\ escaped[r] = <<>>
            /\ fwd[r] = <<[from |-> "catchAsync", err |-> handler[r].err]>>
            /\ pc[r] = "done" =>
                  /\ Len(gerArgs[r]) = 1
                  /\ gerArgs[r][1].err = handler[r].err

\* C6: every request gets exactly one response: a request that has finished
\* has one, and no request ever has two, on every failure path (Auth Gate
\* rejection, Application Error from a route, unmatched route, any error
\* reaching the error handler in either deployment mode).
C6_ExactlyOneResponse ==
    \A r \in Reqs :
        /\ Len(res[r]) <= 1
        /\ pc[r] = "done" => Len(res[r]) = 1
        /\ pc[r] # "hung"

C6_Witness ==
    \E r \in Reqs :
        /\ pc[r] = "done" /\ Len(gerArgs[r]) = 1 /\ Len(res[r]) = 1
        /\ gerArgs[r][1].nodeEnv = "production"
        /\ gerArgs[r][1].err.name = "TokenExpiredError"
        /\ res[r][1].by = "globalErrorHandler" /\ res[r][1].code = 401

\* C7 as claimed: an error that is not marked operational is answered, in
\* production, 500 {status: "error", message: "Something went wrong"} and
\* nothing else; in development the answer contains error and stack.
GenericResponse ==
    [by |-> "globalErrorHandler", code |-> 500,
     body |-> [status |-> "error", message |-> <<"Something went wrong">>]]

Unexpected(r) ==
    /\ pc[r] = "done" /\ Len(gerArgs[r]) = 1
    /\ ~gerArgs[r][1].err.isOperational

LastResponse(r) == res[r][Len(res[r])]

C7_NonOperationalAlwaysGeneric ==
    \A r \in Reqs :
        Unexpected(r) =>
            /\ gerArgs[r][1].nodeEnv = "production" =>
                  res[r] = <<GenericResponse>>
            /\ gerArgs[r][1].nodeEnv = "development" =>
                  {"error", "stack"} \subseteq DOMAIN LastResponse(r).body

\* the error carries, as own properties, one of the five shapes the
\* production branch reclassifies
ProviderShaped(e) ==
    (e.nameOwn /\ e.name \in ProviderNames) \/ e.code = 11000

\* C7 as amended: an error that is not marked operational and has none of
\* the five provider shapes is answered, in production, exactly 500
\* {status: "error", message: "Something went wrong"}; in development the
\* answer contains error, and stack whenever the error value has a stack
\* (every Error instance has one).
C7_UnreclassifiedNonOperationalGeneric ==
    \A r \in Reqs :
        (Unexpected(r) /\ ~ProviderShaped(gerArgs[r][1].err)) =>
            LET e == gerArgs[r][1].err
            IN  /\ gerArgs[r][1].nodeEnv = "production" =>
                      res[r] = <<GenericResponse>>
                /\ gerArgs[r][1].nodeEnv = "development" =>
                      /\ Len(res[r]) = 1
                      /\ "error" \in DOMAIN res[r][1].body
                      /\ e.isError => "stack" \in DOMAIN res[r][1].body
                      /\ ("stack" \in DOMAIN res[r][1].body) <=> (e.stack # UndefStr)

C7_Witness ==
    \E r \in Reqs :
        /\ Unexpected(r) /\ ~ProviderShaped(gerArgs[r][1].err)
        /\ gerArgs[r][1].err.ctor = "TypeError"
        /\ gerArgs[r][1].nodeEnv = "production"
        /\ res[r] = <<GenericResponse>>

\* C8: every error response body the server sends, on every path and in
\* both modes, has at least the fields status and message.
C8_ErrorBodiesHaveStatusAndMessage ==
    \A r \in Reqs :
        \A i \in 1..Len(res[r]) :
            res[r][i].code >= 400 =>
                {"status", "message"} \subseteq DOMAIN res[r][i].body

\* the routes the application registers
Registered(method, url) ==
    \/ method = "GET" /\ url \in {"/", "/profile/", "/profile/details"}
    \/ method = "PUT" /\ url = "/profile/update"

Unmatched(r) ==
    /\ req[r] # NoReq /\ pc[r] = "done"
    /\ ~Registered(req[r].method, req[r].url)

NotFoundDelivered(r) ==
    /\ Len(res[r]) = 1
    /\ res[r][1].by = "globalErrorHandler"
    /\ res[r][1].code = 404
    /\ res[r][1].body.status = "fail"
    /\ res[r][1].body.message = <<"Can't find ", req[r].url, " on this server!">>

\* C9 as claimed: a request that matches no registered route, whatever its
\* headers, ends with 404, status "fail", "Can't find <url> on this server!".
C9_UnmatchedAlways404 ==
    \A r \in Reqs : Unmatched(r) => NotFoundDelivered(r)

\* C9 as amended: a request that matches no registered route ends with that
\* 404 when its path is outside the /profile mount (whatever its headers) or
\* the verifier accepted its credential; an unmatched request below /profile
\* without an accepted credential ends with the Auth Gate's 401 instead.
C9_Unmatched404BehindGate ==
    \A r \in Reqs :
        Unmatched(r) =>
            IF ~Protected(r) \/ Accepted(r)
            THEN NotFoundDelivered(r)
            ELSE /\ Len(res[r]) = 1
                 /\ res[r][1].by = "firebaseAuthMiddleware"
                 /\ res[r][1].code = 401

C9_Witness ==
    \E r \in Reqs :
        /\ Unmatched(r) /\ req[r].url = "/profile/nope" /\ Accepted(r)
        /\ NotFoundDelivered(r)

UpdateRan(r) ==
    /\ HandlerRan(r) /\ handler[r].name = "updateUserProfile"
    /\ pc[r] = "done"

BadRequestForwarded(r) ==
    /\ Len(fwd[r]) = 1
    /\ fwd[r][1].err.ctor = "AppError"
    /\ fwd[r][1].err.statusCode = 400
    /\ fwd[r][1].err.message = <<"Please provide name and email">>
    /\ OwnResponses(r) = <<>>
    /\ \A i \in 1..Len(res[r]) : res[r][i].code # 200

UpdateEchoed(r) ==
    /\ fwd[r] = <<>>
    /\ res[r] =
         << [by |-> "handler", code |-> 200,
             body |-> [status |-> "success",
                       data |-> [user |-> [uid   |-> verifyOut[r].resolved.uid,
                                           name  |-> req[r].body.name,
                                           email |-> req[r].body.email]]]] >>

\* C10 as claimed: an authenticated PUT /profile/update forwards the 400
\* 'Please provide name and email' when name or email is missing, and
\* otherwise answers 200 with the identity's uid and the given name and email.
C10_UpdateMissingFieldsOnly ==
    \A r \in Reqs :
        UpdateRan(r) =>
            IF req[r].body.name = UndefStr \/ req[r].body.email = UndefStr
            THEN BadRequestForwarded(r)
            ELSE UpdateEchoed(r)

\* C10 as amended: the 400 is forwarded when name or email is missing or
\* falsy (the empty string); when both are present and non-empty the answer
\* is 200 with the identity's uid and exactly the given name and email.
C10_UpdateFalsyFields ==
    \A r \in Reqs :
        UpdateRan(r) =>
            IF req[r].body.name \in {UndefStr, ""}
                 \/ req[r].body.email \in {UndefStr, ""}
            THEN BadRequestForwarded(r)
            ELSE UpdateEchoed(r)

C10_Witness ==
    \E r \in Reqs :
        /\ UpdateRan(r) /\ req[r].body.name = "Ann" /\ req[r].body.email = ""
        /\ BadRequestForwarded(r)

\* positions of a stage in the history of request r
At(r, stages) == {i \in 1..Len(trace[r]) : trace[r][i] \in stages}

\* C11: the stages of one request run in pipeline order: a route handler
\* runs only after the Auth Gate's verification call was made and settled
\* with an identity and the gate called next; no handler runs once the gate
\* has written a 401; the error handler runs only after the stage that
\* produced the error (a handler or the catch-all), never while the gate is
\* still working or a handler is still to run, and nothing of the gate or
\* the handlers runs after it.
C11_PipelineOrder ==
    \A r \in Reqs :
        /\ \A j \in At(r, HandlerNames) :
              /\ \E i \in At(r, {"verify"}) : i < j
              /\ \E i \in At(r, {"next"}) : i < j
              /\ Accepted(r)
        /\ At(r, HandlerNames) # {} => At(r, {"auth401"}) = {}
        /\ At(r, {"auth401"}) # {} =>
              pc[r] = "done" /\ handler[r] = NoHandler
        /\ \A j \in At(r, {"globalErrorHandler"}) :
              /\ \E i \in At(r, HandlerNames \cup {"notFound"}) : i < j
              /\ \A i \in At(r, {"auth", "verify", "next", "notFound"}
                                  \cup HandlerNames) : i < j
              /\ Len(fwd[r]) >= 1
        /\ pc[r] \in {"app", "auth", "verifying", "router", "handler", "notfound"} =>
              At(r, {"globalErrorHandler"}) = {}

C11_Witness ==
    \E r \in Reqs :
        trace[r] = <<"receive", "auth", "verify", "next", "updateUserProfile",
                     "globalErrorHandler">>

\* C12: with requests in flight concurrently, a request holds an identity
\* only if its own verification call, made with the credential of its own
\* header, resolved with exactly that identity; a request whose verification
\* has not succeeded holds none; and what a handler echoes is the identity
\* of its own request.
C12_IdentityIsOwn ==
    \A r \in Reqs :
        /\ user[r] # NoUser =>
              /\ user[r] \in Identities
              /\ verifyOut[r] = [resolved |-> user[r]]
              /\ verifyArgs[r] = <<Tail(req[r].authorization)>>
        /\ ~Accepted(r) => user[r] = NoUser
        /\ \A i \in 1..Len(res[r]) :
              (res[r][i].by = "handler" /\ handler[r].name = "getUserProfile") =>
                  /\ Accepted(r)
                  /\ res[r][i].body.data.user = verifyOut[r].resolved

C12_Witness ==
    \E r, q \in Reqs :
        /\ r # q
        /\ Accepted(r) /\ Accepted(q)
        /\ user[r] # user[q]
        /\ verifyArgs[r] # verifyArgs[q]
        /\ pc[r] = "done" /\ pc[q] = "handler"
        /\ Len(res[r]) = 1 /\ res[r][1].by = "handler"
        /\ handler[r].name = "getUserProfile"

\* C13: the credential passed to the verifier is exactly the part of the
\* Authorization header that follows the "Bearer " prefix: the whole
\* remainder, also when the remainder itself contains "Bearer ".
C13_CredentialIsRemainder ==
    \A r \in Reqs :
        Len(verifyArgs[r]) >= 1 =>
            verifyArgs[r] = <<Tail(req[r].authorization)>>

\* the error handler ran once for r, in production mode, and r is finished
InProduction(r) ==
    /\ pc[r] = "done" /\ Len(gerArgs[r]) = 1
    /\ gerArgs[r][1].nodeEnv = "production"

Fail(code, message) ==
    [by |-> "globalErrorHandler", code |-> code,
     body |-> [status |-> "fail", message |-> message]]

\* the response the reclassification table gives for a provider-shaped
\* error e whose detail is well formed
TableResponse(e) ==
    CASE e.name = "CastError" ->
           Fail(400, <<"Invalid ", e.path, ": ", e.value>>)
      [] e.code = 11000 ->
           Fail(400, <<"Duplicate field value: ", "'ann@x.com'",
                       ". Please use another value!">>)
      [] e.name = "ValidationError" ->
           IF e.errors = <<>>
           THEN Fail(400, <<"Invalid input data. ">>)
           ELSE Fail(400, <<"Invalid input data. ", "name is required", ". ",
                            "email is invalid">>)
      [] e.name = "JsonWebTokenError" ->
           Fail(401, <<"Invalid token. Please log in again.">>)
      [] OTHER ->
           Fail(401, <<"Your token has expired! Please log in again.">>)

\* e has one of the five provider shapes, with the detail its row reads
WellFormedProviderError(e) ==
    \/ e.name \in ProviderNames \ {"ValidationError"}
    \/ e.name = "ValidationError" /\ e.errors # UndefMsg
    \/ e.code = 11000 /\ e.errmsg # UndefMsg
          /\ \E i \in 1..Len(e.errmsg) : e.errmsg[i] = "'ann@x.com'"

\* C14: in production mode every error with one of the five provider shapes
\* (name CastError, code 11000, name ValidationError, name JsonWebTokenError,
\* name TokenExpiredError) is answered as the reclassification table says,
\* as {status: "fail", message} with the table's status code.
C14_ProviderErrorsReclassified ==
    \A r \in Reqs :
        (InProduction(r) /\ WellFormedProviderError(gerArgs[r][1].err)) =>
            res[r] = <<TableResponse(gerArgs[r][1].err)>>

\* the responses the error handler wrote for r
ResponderOutput(r) ==
    SelectSeq(res[r], LAMBDA x : x.by = "globalErrorHandler")

\* the error handler ran once for r and answered
Answered(r) == Len(gerArgs[r]) = 1 /\ Len(ResponderOutput(r)) = 1

\* what the answer shows of the normalized error: the status code sent, and
\* in development mode the statusCode and status of the serialized error and
\* the status of the body
ShowsResolved(r, statusCode, status) ==
    LET e   == gerArgs[r][1].err
        out == ResponderOutput(r)[1]
    IN  /\ out.code # UndefNum
        /\ gerArgs[r][1].nodeEnv # "production" =>
              /\ out.code = statusCode
              /\ out.body.status = status
              /\ out.body.error.statusCode = statusCode
              /\ out.body.error.status = status
              /\ e.message # UndefMsg => out.body.message = e.message
              /\ out.body.error.isOperational = e.isOperational
        /\ (gerArgs[r][1].nodeEnv = "production" /\ e.isOperational
              /\ ~ProviderShaped(e)) =>
              /\ out.code = statusCode
              /\ out.body.status = status

\* C15: after normalization the error has statusCode 500 if it was absent
\* and status "error" if it was absent, a value that was already present is
\* unchanged, and the status code of the response is defined.
C15_AbsentDefaultsPresentKept ==
    \A r \in Reqs :
        Answered(r) =>
            LET e == gerArgs[r][1].err
            IN  ShowsResolved(r,
                    IF e.statusCode = UndefNum THEN 500 ELSE e.statusCode,
                    IF e.status = UndefStr THEN "error" ELSE e.status)

\* C15 as amended: a statusCode that is absent or falsy (0) is resolved to
\* 500 and a status that is absent or falsy ("") to "error"; a truthy value
\* is unchanged, the other properties of the error are unchanged, and the
\* status code of the response is defined.
C15_FalsyDefaultsTruthyKept ==
    \A r \in Reqs :
        Answered(r) =>
            LET e == gerArgs[r][1].err
            IN  ShowsResolved(r,
                    IF e.statusCode \in {UndefNum, 0} THEN 500 ELSE e.statusCode,
                    IF e.status \in {UndefStr, ""} THEN "error" ELSE e.status)

\* an error with statusCode 0 and status "" was answered in development mode
C15_Witness ==
    \E r \in Reqs :
        /\ Answered(r)
        /\ gerArgs[r][1].nodeEnv = "development"
        /\ gerArgs[r][1].err.statusCode = 0
        /\ gerArgs[r][1].err.status = ""
        /\ ResponderOutput(r)[1].code = 500
        /\ ResponderOutput(r)[1].body.error.status = "error"

\* a handler of r has raised an AppError
Raised(r) == handler[r].name = "raising" /\ Len(fwd[r]) = 1

\* C16: an AppError constructed with a statusCode in 100..599 has status
\* "fail" exactly when 400 <= statusCode < 500 and "error" otherwise, its
\* isOperational is true, and constructed without a statusCode it has 500.
C16_StatusFromStatusCode ==
    \A r \in Reqs :
        Raised(r) =>
            LET sc == handler[r].statusCode
                e  == fwd[r][1].err
            IN  /\ e.isOperational = TRUE
                /\ sc = UndefNum => e.statusCode = 500 /\ e.status = "error"
                /\ sc \in 100..599 =>
                      /\ e.statusCode = sc
                      /\ e.status = "fail" <=> (400 <= sc /\ sc < 500)
                      /\ e.status = "error" <=> ~(400 <= sc /\ sc < 500)

\* an AppError constructed at the upper edge of the client range was answered
C16_Witness ==
    \E r \in Reqs :
        /\ Raised(r)
        /\ handler[r].statusCode = 499
        /\ fwd[r][1].err.status = "fail"
        /\ pc[r] = "done"

Responded(r) == pc[r] = "done" /\ Len(res[r]) >= 1

\* C17: under a fair event loop every request that has arrived is eventually
\* responded to, unless its verification call never completes: a request
\* that never gets a response waits on the verifier for ever.
C17_RespondedUnlessVerifierHangs ==
    \A r \in Reqs :
        (pc[r] = "app") ~> (Responded(r) \/ [](pc[r] = "verifying"))

\* a request whose verification call settled has been responded to
C17_Witness ==
    \E r \in Reqs :
        /\ Responded(r)
        /\ verifyOut[r] # NoOutcome
        /\ Len(verifyArgs[r]) = 1

\* the body of the sanitized branch: status and message, nothing else
Sanitized(out) == DOMAIN out.body \subseteq {"status", "message"}

\* C18: the error handler takes the sanitized branch only when NODE_ENV is
\* exactly 'production' when it runs; for every other value, unset included,
\* the body of its response includes the error object and the stack.
C18_DevelopmentUnlessProduction ==
    \A r \in Reqs :
        Answered(r) =>
            LET a   == gerArgs[r][1]
                out == ResponderOutput(r)[1]
            IN  /\ Sanitized(out) <=> a.nodeEnv = "production"
                /\ a.nodeEnv # "production" =>
                      {"error", "stack"} \subseteq DOMAIN out.body

\* C18 as amended: the sanitized branch is taken exactly when NODE_ENV is
\* 'production' when the handler runs (only that branch can throw); for
\* every other value, unset included, the body carries the error's own
\* enumerable properties as error, its message as message, and its stack as
\* stack when the error value has one.
C18_BranchByExactFlag ==
    \A r \in Reqs :
        /\ (Len(gerArgs[r]) = 1 /\ pc[r] = "final") =>
              gerArgs[r][1].nodeEnv = "production"
        /\ Answered(r) =>
              LET a   == gerArgs[r][1]
                  e   == a.err
                  out == ResponderOutput(r)[1]
              IN  /\ Sanitized(out) <=> a.nodeEnv = "production"
                  /\ a.nodeEnv # "production" =>
                        /\ "error" \in DOMAIN out.body
                        /\ out.body.error.isOperational = e.isOperational
                        /\ out.body.error.code = e.code
                        /\ out.body.error.path = e.path
                        /\ out.body.error.value = e.value
                        /\ out.body.error.errmsg = e.errmsg
                        /\ out.body.error.errors = e.errors
                        /\ out.body.error.name =
                              IF e.nameOwn THEN e.name ELSE UndefStr
                        /\ "message" \in DOMAIN out.body <=> e.message # UndefMsg
                        /\ e.message # UndefMsg => out.body.message = e.message
                        /\ "stack" \in DOMAIN out.body <=> e.stack # UndefStr
                        /\ e.stack # UndefStr => out.body.stack = e.stack

\* the handler ran while NODE_ENV was unset and answered with error and
\* stack; the flag was set to 'production' afterwards
C18_Witness ==
    \E r \in Reqs :
        /\ Answered(r)
        /\ gerArgs[r][1].nodeEnv = UndefStr
        /\ {"error", "stack"} \subseteq DOMAIN ResponderOutput(r)[1].body
        /\ env = "production"

\* the messages of the handlers' missing-identity branches
MissingIdentityMessages == {<<"User not authenticated">>, <<"User not found">>}

\* C19: in the assembled pipeline a protected route handler runs only for a
\* request that holds an attached identity, so no handler takes its
\* missing-identity branch (401 "User not authenticated", 404 "User not
\* found"), and every 401 written on a protected path is the Auth Gate's.
C19_HandlersSeeIdentity ==
    \A r \in Reqs :
        /\ HandlerRan(r) => user[r] \in Identities
        /\ \A i \in 1..Len(fwd[r]) :
              fwd[r][i].err.message \notin MissingIdentityMessages
        /\ Protected(r) =>
              \A i \in 1..Len(res[r]) :
                  res[r][i].code = 401 => res[r][i].by = "firebaseAuthMiddleware"

\* the handler of GET /profile/ answered with the identity of the request
C19_Witness ==
    \E r \in Reqs :
        /\ HandlerRan(r) /\ handler[r].name = "profileRoot"
        /\ user[r] \in Identities
        /\ Len(res[r]) = 1 /\ res[r][1].by = "handler"
        /\ res[r][1].body.user = user[r]
        /\ fwd[r] = <<>>

====
